---- MODULE Spec2Model ----
(***************************************************************************)
(* Model of tweet-activity: the scraper loop (scraper.py,                  *)
(* scrape_twitter_activity), the aggregation of scraped timestamps         *)
(* (scraper.py, analyze_scraped_data), the demo generator and the live     *)
(* request path (main.py, generate_demo_data / fetch_via_scraper /         *)
(* analyze_user).                                                          *)
(*                                                                         *)
(* Three specifications share the variables:                               *)
(*   SpecAnalyze  analyze_scraped_data applied to any scraped_data dict    *)
(*   SpecDemo     generate_demo_data                                       *)
(*   SpecRequest  analyze_user -> fetch_via_scraper -> scraper -> response *)
(***************************************************************************)
EXTENDS Integers, Sequences, FiniteSets, TLC

VARIABLES
    pc,              \* position of the call being modelled
    username,        \* the username argument
    max_tweets,      \* scrape_twitter_activity's max_tweets argument
    tweets_data,     \* scraper.py:75  list of {"datetime": str}
    scroll_attempts, \* scraper.py:76
    result,          \* scraper.py:20  the scraper's result dict / scraped_data
    path,            \* which return path the scraper took (history)
    analysis,        \* what analyze_scraped_data returned
    response,        \* what the HTTP caller gets
    rng,             \* state of the random source (main.py:11)
    num_tweets,      \* main.py:55
    events,          \* main.py:57  passes of the demo loop made so far
    tally            \* main.py:51-53  hourly, daily, heatmap of the demo loop

vars == <<pc, username, max_tweets, tweets_data, scroll_attempts, result,
          path, analysis, response, rng, num_tweets, events, tally>>

(***************************************************************************)
(* Program constants                                                       *)
(***************************************************************************)
NumHours == 24
NumDays == 7
TopN == 3
max_scrolls == 10
ScrapeLimit == 50
DemoMinTweets == 150
DemoMaxTweets == 300

(***************************************************************************)
(* Bounds of the model                                                     *)
(***************************************************************************)
MaxLen == 4      \* longest tweets list handed to analyze_scraped_data
MaxElems == 2    \* most <article> elements found by one query_selector_all
MaxSeed == 3     \* seeds of the random source are 0..MaxSeed

Hours == 0 .. (NumHours - 1)
Days == 0 .. (NumDays - 1)

\* Python's None; every optional value is a record, so None compares with it.
None == [none |-> TRUE]

(***************************************************************************)
(* Datetime strings.  A string is described by what datetime.fromisoformat *)
(* reads from it: the calendar day (days since Monday 2024-01-01), the     *)
(* hour written in the string, and its zone suffix: "Z", an explicit       *)
(* "+hh:00" offset, none at all, or text that is no ISO date.              *)
(***************************************************************************)
TsZ(d, h) == [form |-> "Z", day |-> d, hour |-> h, off |-> 0]
TsOff(d, h, o) == [form |-> "offset", day |-> d, hour |-> h, off |-> o]
TsNaive(d, h) == [form |-> "naive", day |-> d, hour |-> h, off |-> 0]
Garbage == [form |-> "garbage", day |-> 0, hour |-> 0, off |-> 0]

\* The strings the model feeds to the aggregation.
TimestampStrings ==
    { TsZ(0, 9),          \* 2024-01-01T09:00:00Z        Monday
      TsOff(0, 10, 1),    \* 2024-01-01T10:00:00+01:00   same instant
      TsZ(1, 10),         \* 2024-01-02T10:00:00Z        Tuesday
      TsZ(2, 23),         \* 2024-01-03T23:00:00Z        Wednesday
      TsOff(3, 0, -1),    \* 2024-01-04T00:00:00-01:00   Thursday
      TsNaive(1, 9),      \* 2024-01-02T09:00:00
      Garbage }           \* not-a-date

\* The strings a scraped page may carry in its <time datetime=...>.
PageStrings == { TsZ(0, 9), TsOff(0, 10, 1), TsZ(1, 10), Garbage }

SeqsUpTo(S, n) == UNION { [1..k -> S] : k \in 0..n }

(***************************************************************************)
(* scraper.py:138-141  parsing of one datetime string                      *)
(***************************************************************************)
ParseError == [raised |-> "ValueError"]
TypeError == [raised |-> "TypeError"]

\* str.endswith("Z")
EndsWithZ(s) == s.form = "Z"

\* str.replace("Z", "+00:00")
ReplaceZ(s) ==
    IF s.form = "Z" THEN [s EXCEPT !.form = "offset", !.off = 0] ELSE s

\* datetime.fromisoformat: an aware datetime keeps the wall-clock fields of
\* the string and the offset as its tzinfo; nothing is converted to UTC.
fromisoformat(s) ==
    CASE s.form = "offset" ->
            [day |-> s.day, hour |-> s.hour, aware |-> TRUE, off |-> s.off]
      [] s.form = "naive" ->
            [day |-> s.day, hour |-> s.hour, aware |-> FALSE, off |-> 0]
      [] OTHER -> ParseError

ParseTweet(s) ==
    IF EndsWithZ(s) THEN fromisoformat(ReplaceZ(s)) ELSE fromisoformat(s)

\* datetime.weekday(): Monday is 0; day 0 of the model is a Monday.
weekday(dt) == dt.day % NumDays

\* datetime.isoformat()
isoformat(dt) ==
    IF dt.aware THEN TsOff(dt.day, dt.hour, dt.off)
    ELSE TsNaive(dt.day, dt.hour)

\* The instant an aware datetime denotes, in hours since the epoch (UTC);
\* a naive datetime is ordered by its own fields.
Instant(dt) == dt.day * NumHours + dt.hour - dt.off

(***************************************************************************)
(* collections.defaultdict(int): a dict keeps insertion order, so it is a  *)
(* sequence of (key, value) items.                                         *)
(***************************************************************************)
DictKeys(d) == { d[i].k : i \in 1..Len(d) }

DictValue(d, key) ==
    LET i == CHOOSE j \in 1..Len(d) : d[j].k = key IN d[i].v

\* d[key] on a defaultdict: a missing key is inserted with int() = 0
DictTouch(d, key) ==
    IF key \in DictKeys(d) THEN d ELSE Append(d, [k |-> key, v |-> 0])

\* d[key] += 1
DictIncr(d, key) ==
    LET t == DictTouch(d, key) IN
    [i \in 1..Len(t) |-> IF t[i].k = key THEN [t[i] EXCEPT !.v = @ + 1] ELSE t[i]]

\* {str(h): d[h] for h in range(n)}, as far as it changes d: the keys
\* 0..n-1 are touched in ascending order.
RECURSIVE TouchRange(_, _, _)
TouchRange(d, from, n) ==
    IF from >= n THEN d ELSE TouchRange(DictTouch(d, from), from + 1, n)

\* {str(h): d[h] for h in range(n)}: the dict handed out, keyed by str(h)
StrKeys(n) == { ToString(h) : h \in 0..(n - 1) }
StrDict(d, n) ==
    [key \in StrKeys(n) |->
        LET h == CHOOSE x \in 0..(n - 1) : ToString(x) = key
        IN  IF h \in DictKeys(d) THEN DictValue(d, h) ELSE 0]

(***************************************************************************)
(* scraper.py:129-151  the counting loop                                   *)
(***************************************************************************)
EmptyCounts ==
    [hourly |-> <<>>, daily |-> <<>>,
     heatmap |-> [d \in Days |-> [h \in Hours |-> 0]]]

\* scraper.py:146-148 / main.py:65-67
Bump(acc, hour, day) ==
    [hourly |-> DictIncr(acc.hourly, hour),
     daily |-> DictIncr(acc.daily, day),
     heatmap |-> [acc.heatmap EXCEPT ![day][hour] = @ + 1]]

\* CountLoop with break where the code has continue: the first unparseable
\* entry ends the loop
RECURSIVE CountLoopBreak(_, _)
CountLoopBreak(tweets, acc) ==
    IF tweets = <<>> THEN acc
    ELSE LET dt == ParseTweet(Head(tweets).datetime) IN
         IF dt = ParseError THEN acc
         ELSE CountLoopBreak(Tail(tweets), Bump(acc, dt.hour, weekday(dt)))

RECURSIVE CountLoop(_, _)
CountLoop(tweets, acc) ==
    IF tweets = <<>> THEN acc
    ELSE LET dt == ParseTweet(Head(tweets).datetime) IN
         IF dt = ParseError THEN CountLoop(Tail(tweets), acc)
         ELSE CountLoop(Tail(tweets), Bump(acc, dt.hour, weekday(dt)))

(***************************************************************************)
(* scraper.py:158-162  peaks                                               *)
(***************************************************************************)
\* sorted(items, key=lambda x: x[1], reverse=True): stable, so items with
\* equal counts keep the order they have in the dict.
InsertDesc(s, x) ==
    LET n == Cardinality({ i \in 1..Len(s) : s[i].v >= x.v }) IN
    SubSeq(s, 1, n) \o <<x>> \o SubSeq(s, n + 1, Len(s))

RECURSIVE SortFrom(_, _)
SortFrom(done, rest) ==
    IF rest = <<>> THEN done
    ELSE SortFrom(InsertDesc(done, Head(rest)), Tail(rest))

SortedDesc(d) == SortFrom(<<>>, d)

\* s[:n]
Take(s, n) == SubSeq(s, 1, IF Len(s) < n THEN Len(s) ELSE n)

Positive(item) == item.v > 0

\* Peaks without the "if c > 0" filter
PeaksUnfiltered(sorted) == Take(sorted, TopN)

\* [(h, c) for h, c in sorted[:3] if c > 0]
Peaks(sorted) == SelectSeq(Take(sorted, TopN), Positive)

\* {"hour": h, "count": c} / {"day": d, "count": c}
HourEntries(items) ==
    [i \in 1..Len(items) |-> [hour |-> items[i].k, count |-> items[i].v]]
DayEntries(items) ==
    [i \in 1..Len(items) |-> [day |-> items[i].k, count |-> items[i].v]]

(***************************************************************************)
(* scraper.py:164-179  the most recent tweet                               *)
(***************************************************************************)
\* the second loop has one try around it: the first string that does not
\* parse raises out of the loop
RECURSIVE ParseAll(_, _)
ParseAll(tweets, timestamps) ==
    IF tweets = <<>> THEN [items |-> timestamps]
    ELSE LET dt == ParseTweet(Head(tweets).datetime) IN
         IF dt = ParseError THEN ParseError
         ELSE ParseAll(Tail(tweets), Append(timestamps, dt))

\* max(timestamps): comparing an aware with a naive datetime raises TypeError
RECURSIVE MaxFold(_, _)
MaxFold(cur, rest) ==
    IF rest = <<>> THEN cur
    ELSE LET x == Head(rest) IN
         IF x.aware # cur.aware THEN TypeError
         ELSE IF Instant(x) > Instant(cur) THEN MaxFold(x, Tail(rest))
         ELSE MaxFold(cur, Tail(rest))

LastTweetTime(tweets) ==
    LET parsed == ParseAll(tweets, <<>>) IN
    IF parsed = ParseError THEN None
    ELSE IF parsed.items = <<>> THEN None
    ELSE LET m == MaxFold(Head(parsed.items), Tail(parsed.items)) IN
         IF m = TypeError THEN None ELSE isoformat(m)

(***************************************************************************)
(* scraper.py:121-195  analyze_scraped_data                                *)
(***************************************************************************)
analyze_scraped_data(scraped_data) ==
    IF ~scraped_data.success \/ scraped_data.tweets = <<>> THEN None
    ELSE
      LET counts == CountLoop(scraped_data.tweets, EmptyCounts)
          hourly == TouchRange(counts.hourly, 0, NumHours)
          daily == TouchRange(counts.daily, 0, NumDays)
      IN  [username |-> scraped_data.username,
           display_name |-> scraped_data.display_name,
           profile_image |-> scraped_data.profile_image,
           total_tweets_analyzed |-> Len(scraped_data.tweets),
           hourly_activity |-> StrDict(hourly, NumHours),
           daily_activity |-> StrDict(daily, NumDays),
           heatmap_data |-> counts.heatmap,
           peak_hours |-> HourEntries(Peaks(SortedDesc(hourly))),
           peak_days |-> DayEntries(Peaks(SortedDesc(daily))),
           timezone_note |-> "Times shown in UTC (scraped)",
           last_tweet_time |-> LastTweetTime(scraped_data.tweets),
           is_demo |-> FALSE,
           is_scraped |-> TRUE]

\* Usernames as they arrive in the URL, and cleaned.  "suspended" stands for
\* any handle that contains that word.
RawUsernames == {"alice", "@alice", "suspended", "@"}
Usernames == {"alice", "suspended"}

\* f"@{username}"
AtName(u) == <<"@", u>>

\* scraper.py:20-27
NewResult(u) ==
    [success |-> FALSE, username |-> u, display_name |-> AtName(u),
     profile_image |-> "", tweets |-> <<>>, error |-> None]

(***************************************************************************)
(* SpecAnalyze: analyze_scraped_data called on any scraped_data            *)
(***************************************************************************)
\* scraper.py:90-92  a tweet is {"datetime": datetime_str}
Tweets == { [datetime |-> s] : s \in TimestampStrings }

InitAnalyze ==
    /\ pc = "analyze"
    /\ username \in {"alice"}
    /\ max_tweets = ScrapeLimit
    /\ tweets_data = <<>>
    /\ scroll_attempts = 0
    /\ \E ok \in BOOLEAN, tw \in SeqsUpTo(Tweets, MaxLen) :
          result = [NewResult(username) EXCEPT !.success = ok, !.tweets = tw]
    /\ path = "none"
    /\ analysis = None
    /\ response = None
    /\ rng = 0
    /\ num_tweets = 0
    /\ events = 0
    /\ tally = EmptyCounts

Analyze ==
    /\ pc = "analyze"
    /\ analysis' = analyze_scraped_data(result)
    /\ pc' = "analyzed"
    /\ UNCHANGED <<username, max_tweets, tweets_data, scroll_attempts, result,
                   path, response, rng, num_tweets, events, tally>>

NextAnalyze == Analyze

SpecAnalyze == InitAnalyze /\ [][NextAnalyze]_vars

(***************************************************************************)
(* Properties of analyze_scraped_data (SpecAnalyze)                        *)
(***************************************************************************)
\* What a datetime string says, read off the string itself.
Readable(s) == s.form \in {"Z", "offset", "naive"}
WrittenHour(s) == s.hour
WrittenWeekday(s) == s.day % NumDays
StrInstant(s) == s.day * NumHours + s.hour - s.off
UtcHour(s) == StrInstant(s) % NumHours
UtcWeekday(s) == (StrInstant(s) \div NumHours) % NumDays

RECURSIVE SumOver(_, _)
SumOver(f, S) ==
    IF S = {} THEN 0
    ELSE LET x == CHOOSE y \in S : TRUE IN f[x] + SumOver(f, S \ {x})

SumFn(f) == SumOver(f, DOMAIN f)
HeatmapSum(hm) == SumFn([d \in DOMAIN hm |-> SumFn(hm[d])])

Summarised == pc = "analyzed" /\ analysis # None
Input == [i \in 1..Len(result.tweets) |-> result.tweets[i].datetime]
ReadableEntries == { i \in 1..Len(Input) : Readable(Input[i]) }

\* C1: in every summary, sum of hourly values = sum of daily values =
\* total_tweets_analyzed = sum of the heatmap cells, also for lists that mix
\* parseable and unparseable entries.
C1_SumsEqualTotal ==
    Summarised =>
        /\ SumFn(analysis.hourly_activity) = SumFn(analysis.daily_activity)
        /\ SumFn(analysis.daily_activity) = analysis.total_tweets_analyzed
        /\ analysis.total_tweets_analyzed = HeatmapSum(analysis.heatmap_data)

\* C2: a non-empty list in which no entry parses yields no summary (None),
\* as the empty list does.
C2_AllUnparseableIsNone ==
    (pc = "analyzed" /\ Input # <<>> /\ ReadableEntries = {})
        => analysis = None

\* C3: every heatmap cell [d][h] is the number of parseable entries whose
\* weekday is d and hour is h, hourly[h] is the sum of column h and daily[d]
\* the sum of row d; unparseable entries change no count and stop nothing.
C3_BucketCounts ==
    Summarised =>
        /\ DOMAIN analysis.heatmap_data = Days
        /\ \A d \in Days : DOMAIN analysis.heatmap_data[d] = Hours
        /\ \A d \in Days, h \in Hours :
              analysis.heatmap_data[d][h] =
                 Cardinality({ i \in ReadableEntries :
                                 /\ WrittenWeekday(Input[i]) = d
                                 /\ WrittenHour(Input[i]) = h })
        /\ \A h \in Hours :
              analysis.hourly_activity[ToString(h)] =
                 SumFn([d \in Days |-> analysis.heatmap_data[d][h]])
        /\ \A d \in Days :
              analysis.daily_activity[ToString(d)] =
                 SumFn(analysis.heatmap_data[d])

\* C3 witness: a summary of a list in which an unparseable entry is followed
\* by two parseable ones that share a cell.
C3_Witness ==
    /\ Summarised
    /\ \E i, j, k \in 1..Len(Input) :
          /\ i < j /\ j < k
          /\ ~Readable(Input[i]) /\ Readable(Input[j]) /\ Readable(Input[k])
          /\ WrittenHour(Input[j]) = WrittenHour(Input[k])
          /\ WrittenWeekday(Input[j]) = WrittenWeekday(Input[k])
    /\ \E d \in Days, h \in Hours : analysis.heatmap_data[d][h] >= 2

\* The peak list `peaks` (entries read with key field via `keyOf`) against
\* the counts `counts` over the buckets 0..n-1.
PeakListOk(keys, cnts, counts, n) ==
    LET nonzero == { b \in 0..(n - 1) : counts[ToString(b)] > 0 }
        listed == { keys[i] : i \in 1..Len(keys) }
        want == IF Cardinality(nonzero) < TopN THEN Cardinality(nonzero) ELSE TopN
    IN  /\ Len(keys) <= TopN
        /\ Len(keys) = want
        /\ Cardinality(listed) = Len(keys)
        /\ \A i \in 1..Len(keys) :
              /\ keys[i] \in 0..(n - 1)
              /\ cnts[i] = counts[ToString(keys[i])]
              /\ cnts[i] > 0
        /\ \A i, j \in 1..Len(keys) : i < j => cnts[i] >= cnts[j]
        /\ \A b \in 0..(n - 1) : b \notin listed =>
              \A i \in 1..Len(keys) : counts[ToString(b)] <= cnts[i]

PeakHourKeys == [i \in 1..Len(analysis.peak_hours) |-> analysis.peak_hours[i].hour]
PeakHourCounts == [i \in 1..Len(analysis.peak_hours) |-> analysis.peak_hours[i].count]
PeakDayKeys == [i \in 1..Len(analysis.peak_days) |-> analysis.peak_days[i].day]
PeakDayCounts == [i \in 1..Len(analysis.peak_days) |-> analysis.peak_days[i].count]

\* C4: peak_hours and peak_days have at most 3 entries, sorted by count
\* descending, all with count > 0, of length min(3, number of nonzero
\* buckets), and no bucket left out has a larger count than a listed one.
C4_PeakLists ==
    Summarised =>
        /\ PeakListOk(PeakHourKeys, PeakHourCounts, analysis.hourly_activity, NumHours)
        /\ PeakListOk(PeakDayKeys, PeakDayCounts, analysis.daily_activity, NumDays)

\* C4 witness: four hour buckets are nonzero and only three are listed,
\* while exactly three day buckets are nonzero and all are listed.
C4_Witness ==
    /\ Summarised
    /\ Cardinality({ h \in Hours : analysis.hourly_activity[ToString(h)] > 0 }) > TopN
    /\ Len(analysis.peak_hours) = TopN
    /\ Cardinality({ d \in Days : analysis.daily_activity[ToString(d)] > 0 }) = TopN
    /\ Len(analysis.peak_days) = TopN

\* C5: every parseable timestamp is counted in the bucket of its hour and
\* weekday in UTC, so "Z" and explicit-offset strings of one instant share
\* their hour bucket and their day bucket.
C5_CountedInUtcBucket ==
    Summarised =>
        \A d \in Days, h \in Hours :
            analysis.heatmap_data[d][h] =
               Cardinality({ i \in ReadableEntries :
                               /\ UtcWeekday(Input[i]) = d
                               /\ UtcHour(Input[i]) = h })

\* C8: buckets with equal counts appear in the peak order in ascending
\* bucket index, whatever the order of the input.
C8_TiesAscending ==
    Summarised =>
        /\ \A i, j \in 1..Len(analysis.peak_hours) :
              (i < j /\ analysis.peak_hours[i].count = analysis.peak_hours[j].count)
                 => analysis.peak_hours[i].hour < analysis.peak_hours[j].hour
        /\ \A i, j \in 1..Len(analysis.peak_days) :
              (i < j /\ analysis.peak_days[i].count = analysis.peak_days[j].count)
                 => analysis.peak_days[i].day < analysis.peak_days[j].day

\* C9: whenever at least one entry parses, last_tweet_time is set and is
\* the latest of the parseable entries, also beside unparseable entries.
C9_LastIsMaxParsed ==
    (Summarised /\ ReadableEntries # {}) =>
        /\ analysis.last_tweet_time # None
        /\ \A i \in ReadableEntries :
              StrInstant(Input[i]) <= StrInstant(analysis.last_tweet_time)
        /\ \E i \in ReadableEntries :
              StrInstant(Input[i]) = StrInstant(analysis.last_tweet_time)

(***************************************************************************)
(* SpecDemo: main.py:48-90  generate_demo_data                             *)
(***************************************************************************)
\* main.py:58-59, 62
hour_weights == <<1, 1, 1, 1, 1, 2, 3, 5, 8, 10, 12, 14,
                  15, 14, 13, 14, 16, 18, 20, 22, 18, 12, 6, 3>>
day_weights == <<18, 20, 22, 20, 18, 12, 10>>

RECURSIVE CumSum(_, _, _)
CumSum(w, i, acc) ==
    IF i > Len(w) THEN <<>>
    ELSE <<acc + w[i]>> \o CumSum(w, i + 1, acc + w[i])

hour_cum == CumSum(hour_weights, 1, 0)
day_cum == CumSum(day_weights, 1, 0)

\* The random module: a generator whose next state follows from its state.
\* The seed is open (the program never seeds it).
NextRng(r) == (r * 75 + 74) % 65537

\* random.choices(range(n), weights=w)[0] with the draw r: the first index
\* whose cumulative weight exceeds the point r falls on.
WeightedChoice(cum, r) ==
    LET point == r % cum[Len(cum)]
        i == CHOOSE j \in 1..Len(cum) :
                /\ cum[j] > point
                /\ \A k \in 1..(j - 1) : cum[k] <= point
    IN  i - 1

\* DemoBump without daily[day] += 1
DemoBumpNoDaily(acc, hour, day) ==
    [hourly |-> DictIncr(acc.hourly, hour),
     daily |-> acc.daily,
     heatmap |-> [acc.heatmap EXCEPT ![day][hour] = @ + 1]]

\* main.py:65-67
DemoBump(acc, hour, day) ==
    [hourly |-> DictIncr(acc.hourly, hour),
     daily |-> DictIncr(acc.daily, day),
     heatmap |-> [acc.heatmap EXCEPT ![day][hour] = @ + 1]]

\* main.py:69-90, given the counts of the loop
generate_demo_data(u, n, cnt) ==
    LET hourly == TouchRange(cnt.hourly, 0, NumHours)
        daily == TouchRange(cnt.daily, 0, NumDays)
    IN  [username |-> u,
         display_name |-> AtName(u),
         profile_image |-> "",
         total_tweets_analyzed |-> n,
         hourly_activity |-> StrDict(hourly, NumHours),
         daily_activity |-> StrDict(daily, NumDays),
         heatmap_data |-> cnt.heatmap,
         peak_hours |-> HourEntries(Take(SortedDesc(hourly), TopN)),
         peak_days |-> DayEntries(Take(SortedDesc(daily), TopN)),
         timezone_note |-> "Times shown in UTC (demo mode)",
         is_demo |-> TRUE]

InitDemo ==
    /\ pc = "demo"
    /\ username \in Usernames
    /\ max_tweets = ScrapeLimit
    /\ tweets_data = <<>>
    /\ scroll_attempts = 0
    /\ result = None
    /\ path = "none"
    /\ analysis = None
    /\ response = None
    /\ rng \in 0..MaxSeed
    /\ num_tweets = 0
    /\ events = 0
    /\ tally = EmptyCounts

\* main.py:51-55  num_tweets = random.randint(150, 300)
DemoStart ==
    /\ pc = "demo"
    /\ num_tweets' \in DemoMinTweets..DemoMaxTweets
    /\ events' = 0
    /\ tally' = EmptyCounts
    /\ pc' = "demo_loop"
    /\ UNCHANGED <<username, max_tweets, tweets_data, scroll_attempts, result,
                   path, analysis, response, rng>>

\* main.py:57-67  one pass of for _ in range(num_tweets)
DemoEvent ==
    /\ pc = "demo_loop"
    /\ events < num_tweets
    /\ LET r1 == NextRng(rng)
           r2 == NextRng(r1)
           hour == WeightedChoice(hour_cum, r1)
           day == WeightedChoice(day_cum, r2)
       IN  /\ tally' = DemoBump(tally, hour, day)
           /\ rng' = r2
    /\ events' = events + 1
    /\ UNCHANGED <<pc, username, max_tweets, tweets_data, scroll_attempts,
                   result, path, analysis, response, num_tweets>>

\* main.py:69-90  the loop is over: build the response
DemoFinish ==
    /\ pc = "demo_loop"
    /\ events >= num_tweets
    /\ response' = generate_demo_data(username, num_tweets, tally)
    /\ pc' = "demo_done"
    /\ UNCHANGED <<username, max_tweets, tweets_data, scroll_attempts, result,
                   path, analysis, rng, num_tweets, events, tally>>

NextDemo == DemoStart \/ DemoEvent \/ DemoFinish

SpecDemo == InitDemo /\ [][NextDemo]_vars

(***************************************************************************)
(* Properties of generate_demo_data (SpecDemo)                             *)
(***************************************************************************)
HourKeyNames ==
    {"0", "1", "2", "3", "4", "5", "6", "7", "8", "9", "10", "11", "12",
     "13", "14", "15", "16", "17", "18", "19", "20", "21", "22", "23"}
DayKeyNames == {"0", "1", "2", "3", "4", "5", "6"}

\* C7: every call of generate_demo_data returns a summary with is_demo
\* true, a total N in [150, 300], exactly the hour keys "0".."23" and the
\* day keys "0".."6", a 7x24 heatmap, and hourly, daily and heatmap sums
\* all equal to N.
C7_DemoSummary ==
    pc = "demo_done" =>
        /\ response.is_demo = TRUE
        /\ response.total_tweets_analyzed \in DemoMinTweets..DemoMaxTweets
        /\ DOMAIN response.hourly_activity = HourKeyNames
        /\ DOMAIN response.daily_activity = DayKeyNames
        /\ DOMAIN response.heatmap_data = Days
        /\ \A d \in Days : DOMAIN response.heatmap_data[d] = Hours
        /\ SumFn(response.hourly_activity) = response.total_tweets_analyzed
        /\ SumFn(response.daily_activity) = response.total_tweets_analyzed
        /\ HeatmapSum(response.heatmap_data) = response.total_tweets_analyzed

\* C7 witness: a demo summary of the largest total, with events spread
\* over several hours and days.
C7_Witness ==
    /\ pc = "demo_done"
    /\ response.total_tweets_analyzed = DemoMaxTweets
    /\ Cardinality({ k \in HourKeyNames : response.hourly_activity[k] > 0 }) > TopN
    /\ Cardinality({ k \in DayKeyNames : response.daily_activity[k] > 0 }) > TopN

(***************************************************************************)
(* Message texts.  A text is its sequence of words; a substring test is a  *)
(* test for a run of words.                                                *)
(***************************************************************************)
Text(words) == [text |-> words]

\* scraper.py:52
NotFoundText(u) ==
    <<"User">> \o AtName(u) \o <<"not", "found", "or", "suspended">>
\* scraper.py:109, main.py:113
NoTweetsText(u) == <<"No", "tweets", "found", "for">> \o AtName(u)
\* scraper.py:112
TimeoutText ==
    <<"Request", "timed", "out", ".", "Twitter", "may", "be", "slow", "or",
      "blocking", "requests", ".">>
\* scraper.py:114
ScrapingErrorText(e) == <<"Scraping", "error", ":">> \o e
\* main.py:162
WrappedErrorText(e) == <<"Error", ":">> \o e

\* str(e) of the exceptions the browser may raise
ExceptionTexts == { <<"Target", "closed">>, <<"Connection", "refused">> }

\* str.lower(), word by word
LowerWord(w) ==
    CASE w = "User" -> "user"
      [] w = "No" -> "no"
      [] w = "Request" -> "request"
      [] w = "Twitter" -> "twitter"
      [] w = "Scraping" -> "scraping"
      [] w = "Error" -> "error"
      [] w = "Target" -> "target"
      [] w = "Connection" -> "connection"
      [] OTHER -> w

lower(words) == [i \in 1..Len(words) |-> LowerWord(words[i])]

\* needle in text
Contains(words, needle) ==
    \E i \in 1..(Len(words) - Len(needle) + 1) :
        SubSeq(words, i, i + Len(needle) - 1) = needle

(***************************************************************************)
(* scraper.py:14-118  scrape_twitter_activity                              *)
(***************************************************************************)
\* What one <article> element gives: a datetime attribute, no <time>
\* element (or an empty attribute), or a lookup that raises.
Elements ==
    { [kind |-> "time", datetime |-> s] : s \in PageStrings }
      \cup { [kind |-> "none", datetime |-> Garbage],
             [kind |-> "raises", datetime |-> Garbage] }

Datetimes(td) == { td[i].datetime : i \in 1..Len(td) }

\* ScanElements without the "not in" test: every datetime found is appended
RECURSIVE ScanElementsNoDedup(_, _)
ScanElementsNoDedup(elems, td) ==
    IF elems = <<>> THEN td
    ELSE LET e == Head(elems) IN
         IF e.kind = "time"
         THEN ScanElementsNoDedup(Tail(elems), Append(td, [datetime |-> e.datetime]))
         ELSE ScanElementsNoDedup(Tail(elems), td)

\* scraper.py:83-94  for tweet in tweet_elements
RECURSIVE ScanElements(_, _)
ScanElements(elems, td) ==
    IF elems = <<>> THEN td
    ELSE LET e == Head(elems) IN
         IF e.kind = "time" /\ e.datetime \notin Datetimes(td)
         THEN ScanElements(Tail(elems), Append(td, [datetime |-> e.datetime]))
         ELSE ScanElements(Tail(elems), td)

\* scraper.py:79  the while condition
LoopGoesOn ==
    Len(tweets_data) < max_tweets /\ scroll_attempts < max_scrolls

\* scraper.py:111-112  except PlaywrightTimeout
TimedOut ==
    /\ result' = [result EXCEPT !.error = Text(TimeoutText)]
    /\ path' = "timeout"
    /\ pc' = "returned"

\* scraper.py:113-114  except Exception as e
Failed(e) ==
    /\ result' = [result EXCEPT !.error = Text(ScrapingErrorText(e))]
    /\ path' = "exception"
    /\ pc' = "returned"

\* main.py:146-150  analyze_user cleans the username; str.strip().lstrip("@")
CleanUsername(raw) ==
    CASE raw = "@alice" -> "alice"
      [] raw = "@" -> ""
      [] OTHER -> raw

HttpError(code, words) == [status |-> code, detail |-> words]

InitRequest ==
    /\ pc = "request"
    /\ username \in RawUsernames
    /\ max_tweets \in {1, 2, ScrapeLimit}
    /\ tweets_data = <<>>
    /\ scroll_attempts = 0
    /\ result = None
    /\ path = "none"
    /\ analysis = None
    /\ response = None
    /\ rng = 0
    /\ num_tweets = 0
    /\ events = 0
    /\ tally = EmptyCounts

\* main.py:146-150  an empty username is refused
RejectEmpty ==
    /\ pc = "request"
    /\ CleanUsername(username) = ""
    /\ response' = HttpError(400, <<"Username", "is", "required">>)
    /\ path' = "rejected"
    /\ pc' = "responded"
    /\ UNCHANGED <<username, max_tweets, tweets_data, scroll_attempts, result,
                   analysis, rng, num_tweets, events, tally>>

\* main.py:147, scraper.py:20-39  the scraper is entered and the browser
\* launched; a launch that raises is outside the scraper's try
Launch ==
    /\ pc = "request"
    /\ CleanUsername(username) # ""
    /\ username' = CleanUsername(username)
    /\ \/ /\ result' = NewResult(username')
          /\ pc' = "goto"
          /\ path' = path
       \/ /\ \E e \in ExceptionTexts : result' = [exception |-> e]
          /\ pc' = "raised"
          /\ path' = "launch_fail"
    /\ UNCHANGED <<max_tweets, tweets_data, scroll_attempts, analysis,
                   response, rng, num_tweets, events, tally>>

\* scraper.py:41-54  page.goto, page.content and the not-found test
Goto ==
    /\ pc = "goto"
    /\ \/ /\ pc' = "profile"
          /\ UNCHANGED <<result, path>>
       \/ /\ result' = [result EXCEPT !.error = Text(NotFoundText(username))]
          /\ path' = "notfound"
          /\ pc' = "returned"
       \/ TimedOut
       \/ \E e \in ExceptionTexts : Failed(e)
    /\ UNCHANGED <<username, max_tweets, tweets_data, scroll_attempts,
                   analysis, response, rng, num_tweets, events, tally>>

\* scraper.py:56-77  display name and avatar (their failures are swallowed),
\* then the loop's variables
Profile ==
    /\ pc = "profile"
    /\ \E name \in {AtName(username), <<"Alice", "A">>},
          image \in {"", "https://pbs.twimg.com/a.jpg"} :
          result' = [result EXCEPT !.display_name = name, !.profile_image = image]
    /\ tweets_data' = <<>>
    /\ scroll_attempts' = 0
    /\ pc' = "loop"
    /\ UNCHANGED <<username, max_tweets, path, analysis, response, rng,
                   num_tweets, events, tally>>

\* scraper.py:79-103  one pass of the while loop, or an exception raised by
\* query_selector_all / page.evaluate inside it
ScrollStep ==
    /\ pc = "loop"
    /\ LoopGoesOn
    /\ \/ /\ \E elems \in SeqsUpTo(Elements, MaxElems) :
                tweets_data' = ScanElements(elems, tweets_data)
          /\ scroll_attempts' = scroll_attempts + 1
          /\ UNCHANGED <<pc, result, path>>
       \/ /\ TimedOut
          /\ UNCHANGED <<tweets_data, scroll_attempts>>
       \/ /\ \E e \in ExceptionTexts : Failed(e)
          /\ UNCHANGED <<tweets_data, scroll_attempts>>
    /\ UNCHANGED <<username, max_tweets, analysis, response, rng, num_tweets,
                   events, tally>>

\* scraper.py:105-118  the loop is over: fill the result and return it
LoopExit ==
    /\ pc = "loop"
    /\ ~LoopGoesOn
    /\ LET ok == Len(tweets_data) > 0 IN
       result' = [result EXCEPT
                    !.tweets = Take(tweets_data, max_tweets),
                    !.success = ok,
                    !.error = IF ok THEN None
                              ELSE Text(NoTweetsText(username))]
    /\ path' = "loop_exit"
    /\ pc' = "returned"
    /\ UNCHANGED <<username, max_tweets, tweets_data, scroll_attempts,
                   analysis, response, rng, num_tweets, events, tally>>

(***************************************************************************)
(* main.py:93-127  fetch_via_scraper, after the scraper has returned       *)
(***************************************************************************)
\* main.py:99-107
ClassifyError(error_msg) ==
    IF Contains(lower(error_msg), <<"not", "found">>)
         \/ Contains(lower(error_msg), <<"suspended">>)
    THEN HttpError(404, error_msg)
    ELSE IF Contains(lower(error_msg), <<"timed", "out">>)
    THEN HttpError(504, error_msg)
    ELSE HttpError(500, error_msg)

\* main.py:115-127
ActivityResponse(a) ==
    [status |-> 200,
     body |-> [username |-> a.username,
               display_name |-> a.display_name,
               profile_image |-> a.profile_image,
               total_tweets_analyzed |-> a.total_tweets_analyzed,
               hourly_activity |-> a.hourly_activity,
               daily_activity |-> a.daily_activity,
               heatmap_data |-> a.heatmap_data,
               peak_hours |-> a.peak_hours,
               peak_days |-> a.peak_days,
               timezone_note |-> a.timezone_note,
               is_demo |-> FALSE]]

\* fetch_via_scraper always asks for 50 tweets (main.py:97)
Fetch ==
    /\ pc = "returned"
    /\ max_tweets = ScrapeLimit
    /\ IF ~result.success
       THEN /\ response' = ClassifyError(result.error.text)
            /\ analysis' = analysis
       ELSE /\ analysis' = analyze_scraped_data(result)
            /\ response' = IF analysis' = None
                           THEN HttpError(404, NoTweetsText(username))
                           ELSE ActivityResponse(analysis')
    /\ pc' = "responded"
    /\ UNCHANGED <<username, max_tweets, tweets_data, scroll_attempts, result,
                   path, rng, num_tweets, events, tally>>

\* main.py:157-162  an exception out of fetch_via_scraper becomes a 500
FetchRaised ==
    /\ pc = "raised"
    /\ max_tweets = ScrapeLimit
    /\ response' = HttpError(500, WrappedErrorText(result.exception))
    /\ pc' = "responded"
    /\ UNCHANGED <<username, max_tweets, tweets_data, scroll_attempts, result,
                   path, analysis, rng, num_tweets, events, tally>>

NextRequest ==
    \/ RejectEmpty
    \/ Launch
    \/ Goto
    \/ Profile
    \/ ScrollStep
    \/ LoopExit
    \/ Fetch
    \/ FetchRaised

SpecRequest == InitRequest /\ [][NextRequest]_vars

(***************************************************************************)
(* Properties of the live request path (SpecRequest)                       *)
(***************************************************************************)
Responded == pc = "responded" /\ path # "rejected"
NoAnalyzable ==
    path = "loop_exit" /\ \A i \in 1..Len(tweets_data) : ~Readable(tweets_data[i].datetime)

\* C6: the error class of a live request is the one fixed by its cause and
\* by no other: not-found/suspended -> 404 "not found"; timeout -> 504; no
\* analyzable timestamps -> 404 "No tweets found"; any other failure -> 500.
C6_ErrorClassByCause ==
    Responded =>
        /\ path = "notfound" =>
              response = HttpError(404, NotFoundText(username))
        /\ path = "timeout" => response.status = 504
        /\ NoAnalyzable =>
              response = HttpError(404, NoTweetsText(username))
        /\ path \in {"exception", "launch_fail"} => response.status = 500
        /\ response.status = 504 => path = "timeout"
        /\ response.status = 500 => path \in {"exception", "launch_fail"}
        /\ response.status = 404 => (path = "notfound" \/ NoAnalyzable)
        /\ response.status = 200 => (path = "loop_exit" /\ ~NoAnalyzable)

ScraperReturned == pc \in {"returned", "responded"} /\ path \notin {"rejected", "launch_fail"}

\* C10: on every return path of scrape_twitter_activity, success is true
\* iff tweets is non-empty iff error is None, tweets holds at most
\* max_tweets entries with pairwise distinct datetime strings; and the
\* "No tweets found" branch after analyze_scraped_data is taken only if
\* analyze_scraped_data returned None on a non-empty list.
C10_ResultShape ==
    /\ ScraperReturned =>
          /\ result.success <=> (result.tweets # <<>>)
          /\ result.success <=> (result.error = None)
          /\ Len(result.tweets) <= max_tweets
          /\ \A i, j \in 1..Len(result.tweets) :
                i # j => result.tweets[i].datetime # result.tweets[j].datetime
    /\ (Responded /\ path = "loop_exit" /\ result.success /\ response.status = 404)
          => (analysis = None /\ result.tweets # <<>>)

\* C10 witness: the scraper returned success with more tweets collected
\* than max_tweets, so the list was cut.
C10_Witness ==
    /\ pc = "returned"
    /\ path = "loop_exit"
    /\ result.success
    /\ Len(tweets_data) > max_tweets
    /\ Len(result.tweets) = max_tweets

====
